---- MODULE Spec2Model ----
(***************************************************************************)
(* gamelive: a terminal viewer/editor that pans a viewport over a fixed    *)
(* 200x200 grid, draws optional rulers and paints or erases cells with the *)
(* mouse.  The model follows src/src/main.rs: the main loop of `main`      *)
(* (draw, pan bounds, clamp, one event), the click handlers and render_map.*)
(***************************************************************************)
EXTENDS Integers, Sequences, FiniteSets, TLC

VARIABLES
    noise_map,        \* the grid, as the set of <<row, column>> cells holding 1.0 (all others hold 0.0)
    camera_x,
    camera_y,
    term_width,
    term_height,
    show_ruller,
    show_help,
    half_height,      \* loop locals of main, as computed in the latest iteration
    width,
    height,
    frame,            \* the latest call of render_map made by terminal.draw (its arguments)
    event,            \* the event read in the current iteration (NoEvent before the read)
    pc,               \* position of main: "draw", "bounds", "poll", "exited", "crashed"
    fault,            \* why main died: "none", "overflow" (arithmetic panic), "capacity" (string cannot grow)
    overflow_checks,  \* build profile: TRUE = debug (overflow panics), FALSE = release (overflow wraps)
    clicks            \* number of pointer-down events handled so far (bounded by MaxClicks)

vars == <<noise_map, camera_x, camera_y, term_width, term_height, show_ruller,
          show_help, half_height, width, height, frame, event, pc, fault,
          overflow_checks, clicks>>

----------------------------------------------------------------------------
(* Program constants, main.rs lines 16-20 *)
MAP_WIDTH == 200
MAP_HEIGHT == 200
RULLER_LEFT_SIZE == 4
RULLER_UP_SIZE == 1
RULLER_DOWN_SIZE == 1

(* Bounds of the model *)
MaxClicks == 1        \* pointer-down events per run
PanSpan == 1          \* the large terminals of Spec leave at most this many cells to pan
MaxContent == 3       \* the small terminals of SpecRender show at most this many grid columns / rows

(* usize arithmetic.  TLC computes with 32-bit integers, so the modulus of   *)
(* usize is scaled to 2^30; every comparison the program makes on a wrapped  *)
(* value is against a quantity below 2^17 (map sizes, u16 terminal sizes),   *)
(* so the outcome of each comparison is the one 2^64 gives.                  *)
UsizeModulus == 2^30
IsizeMax == (UsizeModulus \div 2) - 1

SubOverflows(a, b) == a < b
WrappingSub(a, b) == (a - b) % UsizeModulus
saturating_sub(a, b) == IF a >= b THEN a - b ELSE 0

----------------------------------------------------------------------------
(* The grid *)
MapGet(map, y, x) == IF <<y, x>> \in map THEN 1 ELSE 0

MapSet(map, y, x, value) ==
    IF value > 0 THEN map \cup {<<y, x>>} ELSE map \ {<<y, x>>}

empty_map ==
    { <<0, 0>>,
      <<MAP_WIDTH - 1, MAP_HEIGHT - 1>>,
      <<MAP_WIDTH - 5, MAP_HEIGHT - 2>>,
      <<MAP_WIDTH - 10, MAP_HEIGHT - 10>> }

LOW_GLYPH == "░"
HIGH_GLYPH == "█"
get_char_for_value_strict(value) == IF value < 0 THEN LOW_GLYPH ELSE HIGH_GLYPH

get_char_for_value(value) == IF value <= 0 THEN LOW_GLYPH ELSE HIGH_GLYPH

----------------------------------------------------------------------------
(* Pointer mapping and editing *)
calc_adj_mouse_left_only(mouse_x, mouse_y, ruller) ==
    IF ruller
    THEN <<mouse_x - RULLER_LEFT_SIZE, mouse_y>>
    ELSE <<mouse_x, mouse_y>>

calc_adj_mouse(mouse_x, mouse_y, ruller) ==
    IF ruller
    THEN <<mouse_x - RULLER_LEFT_SIZE, mouse_y - RULLER_UP_SIZE>>
    ELSE <<mouse_x, mouse_y>>

draw_on_map_inclusive(map, map_x, map_y, value) ==
    IF map_x <= MAP_WIDTH /\ map_y <= MAP_HEIGHT
    THEN MapSet(map, map_y, map_x, value)
    ELSE map

draw_on_map(map, map_x, map_y, value) ==
    IF map_x < MAP_WIDTH /\ map_y < MAP_HEIGHT
    THEN MapSet(map, map_y, map_x, value)
    ELSE map

handle_right_click(mouse_x, mouse_y, map, cx, cy, ruller) ==
    LET adj == calc_adj_mouse(mouse_x, mouse_y, ruller) IN
    IF adj[1] >= 0 /\ adj[2] >= 0
    THEN draw_on_map(map, adj[1] + cx, adj[2] + cy, 0)
    ELSE map

handle_left_click_either_axis(mouse_x, mouse_y, map, cx, cy, ruller) ==
    LET adj == calc_adj_mouse(mouse_x, mouse_y, ruller) IN
    IF adj[1] >= 0 \/ adj[2] >= 0
    THEN draw_on_map(map, adj[1] + cx, adj[2] + cy, 1)
    ELSE map

handle_left_click(mouse_x, mouse_y, map, cx, cy, ruller) ==
    LET adj == calc_adj_mouse(mouse_x, mouse_y, ruller) IN
    IF adj[1] >= 0 /\ adj[2] >= 0
    THEN draw_on_map(map, adj[1] + cx, adj[2] + cy, 1)
    ELSE map

----------------------------------------------------------------------------
(* render_map.  A String is a sequence of one-character strings. *)
Repeat(ch, n) == [i \in 1..n |-> ch]

DigitChar(d) == <<"0", "1", "2", "3", "4", "5", "6", "7", "8", "9">>[d + 1]

RECURSIVE Decimal(_)
Decimal(n) == IF n < 10 THEN <<DigitChar(n)>>
              ELSE Decimal(n \div 10) \o <<DigitChar(n % 10)>>

(* format!("{:>w}", n): right-aligned in a field of at least w characters *)
FormatRight(n, w) ==
    LET d == Decimal(n) IN
    IF Len(d) >= w THEN d ELSE Repeat(" ", w - Len(d)) \o d

(* lines 357-361: the content size, with the subtractions as the build computes them *)
render_overflows(w, h, ruller) ==
    ruller /\ ( SubOverflows(w, RULLER_LEFT_SIZE)
               \/ SubOverflows(h, RULLER_UP_SIZE)
               \/ SubOverflows(WrappingSub(h, RULLER_UP_SIZE), RULLER_DOWN_SIZE) )

render_size(w, h, ruller) ==
    IF ruller
    THEN << WrappingSub(w, RULLER_LEFT_SIZE),
            WrappingSub(WrappingSub(h, RULLER_UP_SIZE), RULLER_DOWN_SIZE) >>
    ELSE << w, h >>

(* a String holds at most isize::MAX bytes: a wrapped content size cannot be rendered *)
render_exceeds_capacity(w, h, ruller) ==
    LET size == render_size(w, h, ruller) IN
    size[1] > IsizeMax \/ size[2] > IsizeMax

(* lines 364-376 *)
RECURSIVE top_ruler_labels(_, _, _)
top_ruler_labels(x, map_width, cx) ==
    IF x >= map_width THEN << >>
    ELSE LET map_x == x + cx IN
         (IF map_x % 10 = 0 THEN FormatRight(map_x % 100, 2) ELSE <<" ", " ">>)
         \o top_ruler_labels(x + 1, map_width, cx)

top_ruler(map_width, cx) ==
    Repeat(" ", RULLER_LEFT_SIZE) \o top_ruler_labels(0, map_width, cx) \o <<"\n">>

(* lines 382-389 *)
left_ruler_unwrapped(map_y) ==
    IF map_y % 5 = 0
    THEN FormatRight(map_y, 3) \o <<" ">>
    ELSE Repeat(" ", RULLER_LEFT_SIZE)

left_ruler(map_y) ==
    IF map_y % 5 = 0
    THEN FormatRight(map_y % 100, 3) \o <<" ">>
    ELSE Repeat(" ", RULLER_LEFT_SIZE)

(* lines 391-401 *)
content_cells(map, map_y, map_width, cx) ==
    [ i \in 1..map_width |->
        LET map_x == (i - 1) + cx IN
        IF map_y < MAP_HEIGHT /\ map_x < MAP_WIDTH
        THEN get_char_for_value(MapGet(map, map_y, map_x))
        ELSE " " ]

(* lines 378-403 *)
RECURSIVE content_rows(_, _, _, _, _, _, _)
content_rows(map, y, map_width, map_height, cx, cy, ruller) ==
    IF y >= map_height THEN << >>
    ELSE LET map_y == y + cy IN
         (IF ruller THEN left_ruler(map_y) ELSE << >>)
         \o content_cells(map, map_y, map_width, cx)
         \o <<"\n">>
         \o content_rows(map, y + 1, map_width, map_height, cx, cy, ruller)

render_map(map, cx, cy, w, h, ruller) ==
    LET size == render_size(w, h, ruller) IN
    (IF ruller THEN top_ruler(size[1], cx) ELSE << >>)
    \o content_rows(map, 0, size[1], size[2], cx, cy, ruller)

(* The text rows of a String whose rows each end in a line break *)
RECURSIVE Lines(_)
Lines(s) ==
    IF s = << >> THEN << >>
    ELSE LET n == CHOOSE i \in 1..Len(s) : s[i] = "\n" /\ \A j \in 1..(i - 1) : s[j] # "\n" IN
         <<SubSeq(s, 1, n - 1)>> \o Lines(SubSeq(s, n + 1, Len(s)))

----------------------------------------------------------------------------
(* The main loop, main.rs lines 38-176 *)
NoEvent == [kind |-> "none", code |-> "", ctrl |-> FALSE, column |-> 0, row |-> 0]
TimeoutEvent == [kind |-> "timeout", code |-> "", ctrl |-> FALSE, column |-> 0, row |-> 0]
OtherEvent == [kind |-> "other", code |-> "", ctrl |-> FALSE, column |-> 0, row |-> 0]
KeyEvent(code, ctrl) == [kind |-> "key", code |-> code, ctrl |-> ctrl, column |-> 0, row |-> 0]
MouseEvent(code, column, row) ==
    [kind |-> "mouse", code |-> code, ctrl |-> FALSE, column |-> column, row |-> row]

(* the frame on display, as the call of render_map that produced it *)
NoFrame ==
    [ drawn |-> FALSE, map |-> {}, camera_x |-> 0, camera_y |-> 0,
      width |-> 0, height |-> 0, show_ruller |-> FALSE ]

Rendered(map, cx, cy, w, h, ruller) ==
    [ drawn |-> TRUE, map |-> map, camera_x |-> cx, camera_y |-> cy,
      width |-> w, height |-> h, show_ruller |-> ruller ]

(* lines 38-45 *)
InitMain ==
    /\ noise_map = empty_map
    /\ camera_x = 0
    /\ camera_y = 0
    /\ term_width = 1
    /\ term_height = 1
    /\ show_ruller = TRUE
    /\ show_help = TRUE
    /\ half_height = 0
    /\ width = 0
    /\ height = 0
    /\ frame = NoFrame
    /\ event = NoEvent
    /\ pc = "draw"
    /\ fault = "none"
    /\ clicks = 0

Init == InitMain /\ overflow_checks \in BOOLEAN

(* lines 48-72: terminal.draw; the terminal has any of the sizes in Sizes *)
Draw(Sizes) ==
    /\ pc = "draw"
    /\ \E area \in Sizes :
        /\ term_width' = area[1]
        /\ term_height' = area[2]
        /\ IF render_overflows(area[1], area[2], show_ruller) /\ overflow_checks
           THEN /\ pc' = "crashed"
                /\ fault' = "overflow"
                /\ frame' = frame
           ELSE IF render_exceeds_capacity(area[1], area[2], show_ruller)
           THEN /\ pc' = "crashed"
                /\ fault' = "capacity"
                /\ frame' = frame
           ELSE /\ pc' = "bounds"
                /\ fault' = fault
                /\ frame' = Rendered(noise_map, camera_x, camera_y, area[1], area[2], show_ruller)
    /\ event' = NoEvent
    /\ UNCHANGED <<noise_map, camera_x, camera_y, show_ruller, show_help, half_height,
                   width, height, overflow_checks, clicks>>

(* lines 76-86: the pan bounds *)
bounds_overflow(tw, th, ruller) ==
    ruller /\ (SubOverflows(tw, RULLER_LEFT_SIZE) \/ SubOverflows(th, RULLER_UP_SIZE))

bounds(tw, th, ruller) ==
    IF ruller
    THEN << saturating_sub(MAP_WIDTH, WrappingSub(tw, RULLER_LEFT_SIZE)),
            saturating_sub(MAP_HEIGHT, WrappingSub(th, RULLER_UP_SIZE)) >>
    ELSE << saturating_sub(MAP_WIDTH, tw),
            saturating_sub(MAP_HEIGHT, th) >>

(* lines 88-93 *)
clamp_to_max(camera, max) == max

clamp(camera, max) == IF camera > max THEN max ELSE camera

(* lines 74-93 *)
Bounds ==
    /\ pc = "bounds"
    /\ half_height' = term_height \div 2
    /\ IF bounds_overflow(term_width, term_height, show_ruller) /\ overflow_checks
       THEN /\ pc' = "crashed"
            /\ fault' = "overflow"
            /\ UNCHANGED <<width, height, camera_x, camera_y>>
       ELSE LET b == bounds(term_width, term_height, show_ruller) IN
            /\ width' = b[1]
            /\ height' = b[2]
            /\ camera_y' = clamp(camera_y, b[2])
            /\ camera_x' = clamp(camera_x, b[1])
            /\ pc' = "poll"
            /\ fault' = fault
    /\ UNCHANGED <<noise_map, term_width, term_height, show_ruller, show_help, frame,
                   event, overflow_checks, clicks>>

(* what every event handler leaves alone *)
LoopFrame == UNCHANGED <<term_width, term_height, half_height, width, height, frame,
                         overflow_checks>>

(* line 95: poll times out *)
Timeout ==
    /\ pc = "poll"
    /\ event' = TimeoutEvent
    /\ pc' = "draw"
    /\ LoopFrame
    /\ UNCHANGED <<noise_map, camera_x, camera_y, show_ruller, show_help, fault, clicks>>

(* line 98 *)
KeyQ ==
    /\ pc = "poll"
    /\ event' = KeyEvent("q", FALSE)
    /\ pc' = "exited"
    /\ LoopFrame
    /\ UNCHANGED <<noise_map, camera_x, camera_y, show_ruller, show_help, fault, clicks>>

(* lines 99-107 *)
page_down(cy, max_y, half, checks) ==
    IF SubOverflows(max_y, half) /\ checks
    THEN [ok |-> FALSE, camera_y |-> cy]
    ELSE IF cy < WrappingSub(max_y, half)
    THEN [ok |-> TRUE, camera_y |-> cy + half]
    ELSE IF cy < max_y
    THEN [ok |-> TRUE, camera_y |-> max_y]
    ELSE [ok |-> TRUE, camera_y |-> cy]

KeyD(Modifiers) ==
    /\ pc = "poll"
    /\ \E ctrl \in Modifiers :
        /\ event' = KeyEvent("d", ctrl)
        /\ IF ctrl
           THEN LET r == page_down(camera_y, height, half_height, overflow_checks) IN
                /\ camera_y' = r.camera_y
                /\ pc' = IF r.ok THEN "draw" ELSE "crashed"
                /\ fault' = IF r.ok THEN fault ELSE "overflow"
           ELSE /\ pc' = "draw"
                /\ UNCHANGED <<camera_y, fault>>
    /\ LoopFrame
    /\ UNCHANGED <<noise_map, camera_x, show_ruller, show_help, clicks>>

(* lines 108-116 *)
page_up(cy, half) ==
    IF cy > half THEN cy - half
    ELSE IF cy > 0 THEN 0
    ELSE cy

KeyU_ungated ==
    /\ pc = "poll"
    /\ \E ctrl \in BOOLEAN :
        /\ event' = KeyEvent("u", ctrl)
        /\ camera_y' = page_up(camera_y, half_height)
    /\ pc' = "draw"
    /\ LoopFrame
    /\ UNCHANGED <<noise_map, camera_x, show_ruller, show_help, fault, clicks>>

KeyU ==
    /\ pc = "poll"
    /\ \E ctrl \in BOOLEAN :
        /\ event' = KeyEvent("u", ctrl)
        /\ camera_y' = IF ctrl THEN page_up(camera_y, half_height) ELSE camera_y
    /\ pc' = "draw"
    /\ LoopFrame
    /\ UNCHANGED <<noise_map, camera_x, show_ruller, show_help, fault, clicks>>

(* lines 117-121 *)
KeyR_resets_camera ==
    /\ pc = "poll"
    /\ \E ctrl \in BOOLEAN :
        /\ event' = KeyEvent("r", ctrl)
        /\ show_ruller' = IF ctrl THEN ~show_ruller ELSE show_ruller
        /\ camera_x' = IF ctrl THEN 0 ELSE camera_x
    /\ pc' = "draw"
    /\ LoopFrame
    /\ UNCHANGED <<noise_map, camera_y, show_help, fault, clicks>>

KeyR ==
    /\ pc = "poll"
    /\ \E ctrl \in BOOLEAN :
        /\ event' = KeyEvent("r", ctrl)
        /\ show_ruller' = IF ctrl THEN ~show_ruller ELSE show_ruller
    /\ pc' = "draw"
    /\ LoopFrame
    /\ UNCHANGED <<noise_map, camera_x, camera_y, show_help, fault, clicks>>

(* lines 122-126: 'h' or Left *)
move_left(cx) == IF cx > 0 THEN cx - 1 ELSE cx

KeyLeft ==
    /\ pc = "poll"
    /\ \E code \in {"h", "Left"} : event' = KeyEvent(code, FALSE)
    /\ camera_x' = move_left(camera_x)
    /\ pc' = "draw"
    /\ LoopFrame
    /\ UNCHANGED <<noise_map, camera_y, show_ruller, show_help, fault, clicks>>

(* lines 127-131: 'l' or Right *)
move_right_unguarded(cx, max_x) == cx + 1

move_right(cx, max_x) == IF cx < max_x THEN cx + 1 ELSE cx

KeyRight ==
    /\ pc = "poll"
    /\ \E code \in {"l", "Right"} : event' = KeyEvent(code, FALSE)
    /\ camera_x' = move_right(camera_x, width)
    /\ pc' = "draw"
    /\ LoopFrame
    /\ UNCHANGED <<noise_map, camera_y, show_ruller, show_help, fault, clicks>>

(* lines 132-136: 'k' or Up *)
move_up(cy) == IF cy > 0 THEN cy - 1 ELSE cy

KeyUp ==
    /\ pc = "poll"
    /\ \E code \in {"k", "Up"} : event' = KeyEvent(code, FALSE)
    /\ camera_y' = move_up(camera_y)
    /\ pc' = "draw"
    /\ LoopFrame
    /\ UNCHANGED <<noise_map, camera_x, show_ruller, show_help, fault, clicks>>

(* lines 137-141: 'j' or Down *)
move_down(cy, max_y) == IF cy < max_y THEN cy + 1 ELSE cy

KeyDown ==
    /\ pc = "poll"
    /\ \E code \in {"j", "Down"} : event' = KeyEvent(code, FALSE)
    /\ camera_y' = move_down(camera_y, height)
    /\ pc' = "draw"
    /\ LoopFrame
    /\ UNCHANGED <<noise_map, camera_x, show_ruller, show_help, fault, clicks>>

(* lines 142-144 *)
KeyHelp ==
    /\ pc = "poll"
    /\ event' = KeyEvent("?", FALSE)
    /\ show_help' = ~show_help
    /\ pc' = "draw"
    /\ LoopFrame
    /\ UNCHANGED <<noise_map, camera_x, camera_y, show_ruller, fault, clicks>>

(* line 145: any other key; line 173: any event that is neither key nor mouse *)
Ignored ==
    /\ pc = "poll"
    /\ event' \in {KeyEvent("x", FALSE), OtherEvent}
    /\ pc' = "draw"
    /\ LoopFrame
    /\ UNCHANGED <<noise_map, camera_x, camera_y, show_ruller, show_help, fault, clicks>>

(* lines 149-158 *)
MouseLeft(Cols, Rows) ==
    /\ pc = "poll"
    /\ clicks < MaxClicks
    /\ \E column \in Cols, row \in Rows :
        /\ event' = MouseEvent("down_left", column, row)
        /\ noise_map' = handle_left_click(column, row, noise_map, camera_x, camera_y, show_ruller)
    /\ clicks' = clicks + 1
    /\ pc' = "draw"
    /\ LoopFrame
    /\ UNCHANGED <<camera_x, camera_y, show_ruller, show_help, fault>>

(* lines 159-168 *)
MouseRight(Cols, Rows) ==
    /\ pc = "poll"
    /\ clicks < MaxClicks
    /\ \E column \in Cols, row \in Rows :
        /\ event' = MouseEvent("down_right", column, row)
        /\ noise_map' = handle_right_click(column, row, noise_map, camera_x, camera_y, show_ruller)
    /\ clicks' = clicks + 1
    /\ pc' = "draw"
    /\ LoopFrame
    /\ UNCHANGED <<camera_x, camera_y, show_ruller, show_help, fault>>

(* lines 169-171: another button, or a mouse event that is not a button press *)
MouseIgnored ==
    /\ pc = "poll"
    /\ \E code \in {"down_middle", "moved"} : event' = MouseEvent(code, 0, 0)
    /\ pc' = "draw"
    /\ LoopFrame
    /\ UNCHANGED <<noise_map, camera_x, camera_y, show_ruller, show_help, fault, clicks>>

----------------------------------------------------------------------------
(* Spec: the whole program on terminals about as large as the grid *)
LargeSizes ==
    {MAP_WIDTH + RULLER_LEFT_SIZE - PanSpan, MAP_WIDTH + RULLER_LEFT_SIZE}
    \X {MAP_HEIGHT + RULLER_UP_SIZE - PanSpan, MAP_HEIGHT + RULLER_UP_SIZE}

LargeCols == {0, RULLER_LEFT_SIZE, MAP_WIDTH + RULLER_LEFT_SIZE - 1}
LargeRows == {0, RULLER_UP_SIZE, MAP_HEIGHT + RULLER_UP_SIZE - 1}

Next ==
    \/ Draw(LargeSizes)
    \/ Bounds
    \/ Timeout
    \/ KeyQ
    \/ KeyD(BOOLEAN)
    \/ KeyU
    \/ KeyR
    \/ KeyLeft
    \/ KeyRight
    \/ KeyUp
    \/ KeyDown
    \/ KeyHelp
    \/ Ignored
    \/ MouseLeft(LargeCols, LargeRows)
    \/ MouseRight(LargeCols, LargeRows)
    \/ MouseIgnored

Spec == Init /\ [][Next]_vars

----------------------------------------------------------------------------
(* SpecRender: drawing and clicking on small terminals, the camera anywhere  *)
(* from the origin to the far corner of the grid.  The run starts where the  *)
(* program is after the user hid the ruler, shrank the terminal to nothing,  *)
(* panned to the camera position and then let the poll time out or pressed   *)
(* Ctrl+r.                                                                   *)
CameraSamples == {0, MAP_WIDTH - MaxContent - 1, MAP_WIDTH - MaxContent, MAP_WIDTH}

SmallSizes ==
    {RULLER_LEFT_SIZE - 1, RULLER_LEFT_SIZE, RULLER_LEFT_SIZE + MaxContent}
    \X {RULLER_UP_SIZE, RULLER_UP_SIZE + RULLER_DOWN_SIZE,
        RULLER_UP_SIZE + RULLER_DOWN_SIZE + MaxContent}

SmallCols == {0, RULLER_LEFT_SIZE, RULLER_LEFT_SIZE + MaxContent - 1}
SmallRows == {0, RULLER_UP_SIZE, RULLER_UP_SIZE + MaxContent - 1}

InitRender ==
    /\ noise_map = empty_map
    /\ camera_x \in CameraSamples
    /\ camera_y \in CameraSamples
    /\ term_width = 0
    /\ term_height = 0
    /\ show_ruller \in BOOLEAN
    /\ show_help = TRUE
    /\ half_height = 0
    /\ width = MAP_WIDTH
    /\ height = MAP_HEIGHT
    /\ frame = Rendered(empty_map, camera_x, camera_y, 0, 0, FALSE)
    /\ event = IF show_ruller THEN KeyEvent("r", TRUE) ELSE TimeoutEvent
    /\ pc = "draw"
    /\ fault = "none"
    /\ clicks = 0
    /\ overflow_checks \in BOOLEAN

NextRender ==
    \/ Draw(SmallSizes)
    \/ Bounds
    \/ Timeout
    \/ KeyR
    \/ MouseLeft(SmallCols, SmallRows)
    \/ MouseRight(SmallCols, SmallRows)

SpecRender == InitRender /\ [][NextRender]_vars

----------------------------------------------------------------------------
(* SpecLabels: drawing alone, with the ruler toggled and the terminal resized *)
(* between frames and no clicks.  The camera starts as in SpecRender or at a  *)
(* position whose ruler labels have two digits.                               *)
LabelCameras == CameraSamples \cup {MAP_WIDTH - 10, MAP_WIDTH - 5}

InitLabels ==
    /\ noise_map = empty_map
    /\ camera_x \in LabelCameras
    /\ camera_y \in LabelCameras
    /\ term_width = 0
    /\ term_height = 0
    /\ show_ruller \in BOOLEAN
    /\ show_help = TRUE
    /\ half_height = 0
    /\ width = MAP_WIDTH
    /\ height = MAP_HEIGHT
    /\ frame = Rendered(empty_map, camera_x, camera_y, 0, 0, FALSE)
    /\ event = IF show_ruller THEN KeyEvent("r", TRUE) ELSE TimeoutEvent
    /\ pc = "draw"
    /\ fault = "none"
    /\ clicks = 0
    /\ overflow_checks \in BOOLEAN

NextLabels ==
    \/ Draw(SmallSizes)
    \/ Bounds
    \/ Timeout
    \/ KeyR

SpecLabels == InitLabels /\ [][NextLabels]_vars

----------------------------------------------------------------------------
(* SpecCtrlD: the terminal keeps its size and the user keeps pressing Ctrl+d. *)
(* The run starts after an iteration that drew the frame at that size and     *)
(* timed out, the camera anywhere in its range.                               *)
CtrlDSizes == {80} \X {0, 1, 2, 50, 150}

InitCtrlD ==
    /\ noise_map = empty_map
    /\ \E area \in CtrlDSizes : term_width = area[1] /\ term_height = area[2]
    /\ show_ruller \in BOOLEAN
    /\ ~render_overflows(term_width, term_height, show_ruller)
    /\ show_help \in BOOLEAN
    /\ half_height = term_height \div 2
    /\ width = bounds(term_width, term_height, show_ruller)[1]
    /\ height = bounds(term_width, term_height, show_ruller)[2]
    /\ camera_x = 0
    /\ camera_y \in 0..height
    /\ frame = Rendered(empty_map, camera_x, camera_y, term_width, term_height, show_ruller)
    /\ event = TimeoutEvent
    /\ pc = "draw"
    /\ fault = "none"
    /\ clicks = 0
    /\ overflow_checks \in BOOLEAN

NextCtrlD ==
    \/ Draw({<<term_width, term_height>>})
    \/ Bounds
    \/ KeyD({TRUE})

SpecCtrlD == InitCtrlD /\ [][NextCtrlD]_vars /\ WF_vars(NextCtrlD)

(* SpecCtrlU: as SpecCtrlD, the key pressed being 'u', with or without Control *)
NextCtrlU ==
    \/ Draw({<<term_width, term_height>>})
    \/ Bounds
    \/ KeyU

SpecCtrlU == InitCtrlD /\ [][NextCtrlU]_vars

----------------------------------------------------------------------------
(* Helpers of the properties *)
PanBounds == bounds(term_width, term_height, show_ruller)

IsClick(e) == e.kind = "mouse" /\ e.code \in {"down_left", "down_right"}

(* the iteration has handled its event and has not quit or died *)
Handled == pc = "draw" /\ event # NoEvent

(* C1 speaks of resizes (seen by the draw of an iteration that then times out *)
(* or handles one of these keys), ruler toggles and single-cell moves         *)
MoveCodes == {"h", "l", "k", "j", "Left", "Right", "Up", "Down"}

PanOrToggle(e) ==
    \/ e.kind = "timeout"
    \/ e.kind = "key" /\ e.code \in MoveCodes
    \/ e.kind = "key" /\ e.code = "r"

(* C1: after the clamp step, and after a resize, ruler toggle or single-cell  *)
(* move has been handled, 0 <= camera_x <= max_x and 0 <= camera_y <= max_y   *)
(* for the bounds max_x = width, max_y = height computed in that iteration    *)
(* from the terminal size and the ruler flag the iteration saw.               *)
C1_CameraInRange ==
    /\ pc = "poll" =>
          /\ <<width, height>> = PanBounds
          /\ 0 <= camera_x /\ camera_x <= width
          /\ 0 <= camera_y /\ camera_y <= height
    /\ (Handled /\ PanOrToggle(event)) =>
          /\ <<width, height>> = bounds(term_width, term_height, frame.show_ruller)
          /\ 0 <= camera_x /\ camera_x <= width
          /\ 0 <= camera_y /\ camera_y <= height

(* a move to the right has brought the camera onto its right limit *)
C1_Witness ==
    /\ Handled
    /\ event.code = "l"
    /\ width > 0
    /\ camera_x = width
    /\ frame.camera_x < camera_x

(* C2: every frame that is drawn is rendered with a camera inside the pan    *)
(* bounds of the terminal size and ruler flag of that same frame.             *)
C2_FrameCameraInRange ==
    frame.drawn =>
        LET b == bounds(frame.width, frame.height, frame.show_ruller) IN
        frame.camera_x <= b[1] /\ frame.camera_y <= b[2]

(* The frame on display: the String the latest render_map call returned *)
Screen ==
    render_map(frame.map, frame.camera_x, frame.camera_y,
               frame.width, frame.height, frame.show_ruller)

(* C3: render_map returns exactly `height` rows of exactly `width` characters, *)
(* with the ruler shown or hidden.                                             *)
C3_RectangularFrame ==
    frame.drawn =>
        LET rows == Lines(Screen) IN
        /\ Len(rows) = frame.height
        /\ \A i \in 1..Len(rows) : Len(rows[i]) = frame.width

(* The grid rows and grid columns a rendered String draws: its rows below the *)
(* top ruler row, and the characters of such a row after the left ruler.      *)
ContentRowsOf(s, ruller) ==
    LET rows == Lines(s) IN
    IF ruller THEN SubSeq(rows, 1 + RULLER_UP_SIZE, Len(rows)) ELSE rows

ContentColsOf(row, ruller) ==
    IF ruller THEN SubSeq(row, 1 + RULLER_LEFT_SIZE, Len(row)) ELSE row

(* C4: for terminals at least as large as the ruler reservations, the pan     *)
(* bounds of an iteration are max(0, MAP_WIDTH - content_cols) and            *)
(* max(0, MAP_HEIGHT - content_rows) for the content size of its frame.       *)
C4_BoundsMatchContent ==
    (pc = "poll" /\ frame.width >= RULLER_LEFT_SIZE
                 /\ frame.height >= RULLER_UP_SIZE + RULLER_DOWN_SIZE) =>
        LET content == ContentRowsOf(Screen, frame.show_ruller) IN
        /\ height = saturating_sub(MAP_HEIGHT, Len(content))
        /\ \A i \in 1..Len(content) :
              width = saturating_sub(MAP_WIDTH, Len(ContentColsOf(content[i], frame.show_ruller)))

(* The half page of C5: half of the drawable height, the terminal height     *)
(* minus the rows render_map reserves when the ruler is shown; the claim is   *)
(* also read with the half_height the code computes.                          *)
DrawableHalf == render_size(term_width, term_height, show_ruller)[2] \div 2

HalfReadings == {DrawableHalf, half_height}

(* the camera the event handler of this iteration started from: the camera of *)
(* the frame, clamped                                                         *)
CameraYBeforeEvent == clamp(frame.camera_y, height)

(* C5: Ctrl+d never fails and sets camera_y to camera_y + half when that is   *)
(* below max_y and to exactly max_y otherwise, half being half the drawable   *)
(* height; camera_y never exceeds max_y after it.                             *)
C5_CtrlDStep ==
    (pc \in {"draw", "crashed"} /\ event = KeyEvent("d", TRUE)) =>
        /\ pc = "draw"
        /\ camera_y <= height
        /\ \E half \in HalfReadings :
              camera_y = IF CameraYBeforeEvent + half < height
                         THEN CameraYBeforeEvent + half
                         ELSE height

(* C6: with the terminal size and ruler flag fixed, pressing Ctrl+d again and *)
(* again brings camera_y to max_y, where it then stays.                       *)
C6_CtrlDReachesEnd == <>[](camera_y = height)

(* Screen position of content offset (0, 0) *)
ContentLeft == IF show_ruller THEN RULLER_LEFT_SIZE ELSE 0
ContentUp == IF show_ruller THEN RULLER_UP_SIZE ELSE 0

(* the frame render_map gives for the present grid, camera and ruler flag, and *)
(* the one it gives for the grid as it was before the click                   *)
FrameNow ==
    Lines(render_map(noise_map, camera_x, camera_y, term_width, term_height, show_ruller))
FrameBeforeClick ==
    Lines(render_map(frame.map, camera_x, camera_y, term_width, term_height, show_ruller))

(* C7: under one camera and ruler flag, render_map places at content offset   *)
(* (cx, cy) the glyph of world cell (cx + camera_x, cy + camera_y), and a     *)
(* click at the screen position of that offset edits exactly that cell: the   *)
(* glyph there becomes the painted (left) or erased (right) glyph and no      *)
(* other character of the frame changes.                                      *)
C7_RoundTrip ==
    (Handled /\ IsClick(event)) =>
        LET cx == event.column - ContentLeft
            cy == event.row - ContentUp
            size == render_size(term_width, term_height, show_ruller)
            wx == cx + camera_x
            wy == cy + camera_y
            value == IF event.code = "down_left" THEN 1 ELSE 0
            now == FrameNow
            before == FrameBeforeClick
        IN  (cx >= 0 /\ cy >= 0 /\ cx < size[1] /\ cy < size[2]) =>
              /\ now[event.row + 1][event.column + 1] =
                    IF wx < MAP_WIDTH /\ wy < MAP_HEIGHT
                    THEN get_char_for_value(MapGet(noise_map, wy, wx))
                    ELSE " "
              /\ (wx < MAP_WIDTH /\ wy < MAP_HEIGHT) =>
                    /\ MapGet(noise_map, wy, wx) = value
                    /\ now[event.row + 1][event.column + 1] = get_char_for_value(value)
              /\ before = [now EXCEPT ![event.row + 1][event.column + 1] =
                                          before[event.row + 1][event.column + 1]]

(* a left click on a shown, empty grid cell below the rulers painted it *)
C7_Witness ==
    /\ Handled
    /\ event.code = "down_left"
    /\ show_ruller
    /\ event.column >= RULLER_LEFT_SIZE
    /\ event.row >= RULLER_UP_SIZE
    /\ event.column - RULLER_LEFT_SIZE < render_size(term_width, term_height, show_ruller)[1]
    /\ event.row - RULLER_UP_SIZE < render_size(term_width, term_height, show_ruller)[2]
    /\ FrameBeforeClick[event.row + 1][event.column + 1] = LOW_GLYPH
    /\ FrameNow[event.row + 1][event.column + 1] = HIGH_GLYPH

(* C8: with the ruler shown, a left or right pointer-down at a column below   *)
(* RULLER_LEFT_SIZE or a row below RULLER_UP_SIZE changes no cell and raises  *)
(* no error.                                                                  *)
C8_RulerClicksIgnored ==
    ( /\ pc \in {"draw", "crashed"}
      /\ IsClick(event)
      /\ show_ruller
      /\ (event.column < RULLER_LEFT_SIZE \/ event.row < RULLER_UP_SIZE) ) =>
        /\ noise_map = frame.map
        /\ pc = "draw"
        /\ fault = "none"

(* a left click on the top ruler row, above a cell that is empty, the camera   *)
(* one row down                                                               *)
C8_Witness ==
    /\ Handled
    /\ event.code = "down_left"
    /\ show_ruller
    /\ event.column >= RULLER_LEFT_SIZE
    /\ event.row < RULLER_UP_SIZE
    /\ camera_y > 0
    /\ event.column - RULLER_LEFT_SIZE + camera_x < MAP_WIDTH
    /\ MapGet(noise_map, camera_y - 1, event.column - RULLER_LEFT_SIZE + camera_x) = 0

(* C9: a pointer-down mapped to a world coordinate inside the grid sets that   *)
(* one cell (1.0 left, 0.0 right) and no other; one mapped to wx >= MAP_WIDTH  *)
(* or wy >= MAP_HEIGHT leaves the grid unchanged; neither fails.               *)
C9_EditSemantics ==
    (pc \in {"draw", "crashed"} /\ IsClick(event)) =>
        LET ax == event.column - ContentLeft
            ay == event.row - ContentUp
            wx == ax + camera_x
            wy == ay + camera_y
            value == IF event.code = "down_left" THEN 1 ELSE 0
        IN  /\ pc = "draw"
            /\ fault = "none"
            /\ (ax >= 0 /\ ay >= 0) =>
                  IF wx < MAP_WIDTH /\ wy < MAP_HEIGHT
                  THEN /\ MapGet(noise_map, wy, wx) = value
                       /\ noise_map \ {<<wy, wx>>} = frame.map \ {<<wy, wx>>}
                  ELSE noise_map = frame.map

(* a right click erased the landmark cell at the origin *)
C9_Witness ==
    /\ Handled
    /\ event.code = "down_right"
    /\ <<0, 0>> \in frame.map
    /\ <<0, 0>> \notin noise_map

(* C10: whatever the terminal size, rendering the frame and computing the pan *)
(* bounds complete; main never dies of an arithmetic underflow or abort.      *)
C10_NoFailure == pc # "crashed" /\ fault = "none"

(* terminal.draw has just returned: the frame on display is the one this      *)
(* iteration rendered.  The frame changes nowhere else, so what holds of the  *)
(* frame here holds of it until the next draw.                                *)
FreshFrame == frame.drawn /\ pc = "bounds"

(* C11: in every rendered frame the character at content column x of content *)
(* row y is the glyph of grid cell (x + camera_x, y + camera_y) when that     *)
(* cell is inside the grid and a blank otherwise; the glyph is the low one    *)
(* for a value <= 0 and the high one for a value > 0.                         *)
C11_ContentProjection ==
    FreshFrame =>
        LET content == ContentRowsOf(Screen, frame.show_ruller) IN
        \A y \in 1..Len(content) :
            LET cells == ContentColsOf(content[y], frame.show_ruller) IN
            \A x \in 1..Len(cells) :
                LET wx == (x - 1) + frame.camera_x
                    wy == (y - 1) + frame.camera_y
                IN  cells[x] =
                        IF wx < MAP_WIDTH /\ wy < MAP_HEIGHT
                        THEN (IF <<wy, wx>> \in frame.map THEN "█" ELSE "░")
                        ELSE " "

(* a frame that shows, at content offset (0, 0), a cell the user painted, and *)
(* an empty cell to its right                                                 *)
C11_Witness ==
    /\ frame.drawn
    /\ <<frame.camera_y, frame.camera_x>> \in frame.map \ empty_map
    /\ <<frame.camera_y, frame.camera_x + 1>> \notin frame.map
    /\ frame.camera_x + 1 < MAP_WIDTH
    /\ render_size(frame.width, frame.height, frame.show_ruller)[1] >= 2
    /\ render_size(frame.width, frame.height, frame.show_ruller)[2] >= 1

(* what C12, C15 and C16 call camera, ruler flag, help flag and grid *)
UserState == <<camera_x, camera_y, show_ruller, show_help, noise_map>>

CameraWithinBounds == camera_x <= PanBounds[1] /\ camera_y <= PanBounds[2]

(* C12: the clamp step leaves a camera that is already within the bounds      *)
(* unchanged, and neither the draw nor a poll that times out changes camera,  *)
(* ruler flag, help flag or grid: an idle iteration at an unchanged terminal  *)
(* size leaves them exactly as they were.                                     *)
C12_IdleIterationNoOp ==
    [][ /\ (pc = "bounds" /\ CameraWithinBounds) => UNCHANGED UserState
        /\ (pc = "draw" /\ pc' = "bounds") => UNCHANGED UserState
        /\ (pc = "poll" /\ event' = TimeoutEvent) => UNCHANGED UserState ]_vars

(* an idle iteration has ended with the camera off the origin, where the      *)
(* frame of that iteration had it, and within the bounds                      *)
C12_Witness ==
    /\ Handled
    /\ event = TimeoutEvent
    /\ frame.drawn
    /\ camera_x = frame.camera_x
    /\ camera_y = frame.camera_y
    /\ camera_x > 0
    /\ camera_y > 0
    /\ camera_x <= width
    /\ camera_y <= height

(* The half page of C13: half of the drawable height, the terminal height    *)
(* minus the ruler rows when the ruler is shown, counting the rows render_map *)
(* reserves (line 358) or the row the pan bounds reserve (line 79).           *)
DrawableHalves ==
    { render_size(term_width, term_height, show_ruller)[2] \div 2,
      (IF show_ruller THEN WrappingSub(term_height, RULLER_UP_SIZE) ELSE term_height) \div 2 }

(* C13: Ctrl+u sets camera_y to camera_y - half when that is above 0 and to   *)
(* exactly 0 otherwise, half being half the drawable height; camera_y never   *)
(* goes below 0 and camera_x is unchanged.                                    *)
C13_CtrlUStep ==
    (Handled /\ event = KeyEvent("u", TRUE)) =>
        /\ camera_x = clamp(frame.camera_x, width)
        /\ camera_y >= 0
        /\ \E half \in DrawableHalves :
              camera_y = IF CameraYBeforeEvent - half > 0
                         THEN CameraYBeforeEvent - half
                         ELSE 0

(* The grid cell whose glyph the frame on display shows at a screen position: *)
(* the position lies in the content area of the frame (below the top ruler    *)
(* row and right of the left ruler when the frame has them, within the        *)
(* content rows and columns render_map drew) and the cell is inside the grid. *)
FrameShowsCell(column, row) ==
    LET left == IF frame.show_ruller THEN RULLER_LEFT_SIZE ELSE 0
        up == IF frame.show_ruller THEN RULLER_UP_SIZE ELSE 0
        size == render_size(frame.width, frame.height, frame.show_ruller)
    IN  /\ column >= left /\ column - left < size[1]
        /\ row >= up /\ row - up < size[2]
        /\ column - left + frame.camera_x < MAP_WIDTH
        /\ row - up + frame.camera_y < MAP_HEIGHT

FrameCell(column, row) ==
    << row - (IF frame.show_ruller THEN RULLER_UP_SIZE ELSE 0) + frame.camera_y,
       column - (IF frame.show_ruller THEN RULLER_LEFT_SIZE ELSE 0) + frame.camera_x >>

(* the cells whose value the click of this iteration changed *)
CellsChangedByClick == (noise_map \ frame.map) \cup (frame.map \ noise_map)

(* C14: a click inside the terminal that changes the grid changes the cell    *)
(* whose glyph the frame on display shows at the clicked position, and a      *)
(* click where that frame shows no grid glyph (ruler, reserved bottom row,    *)
(* padding) changes no cell.                                                  *)
C14_ClickHitsShownCell ==
    (/\ Handled /\ IsClick(event)
     /\ event.column < frame.width /\ event.row < frame.height
     /\ CellsChangedByClick # {}) =>
        /\ FrameShowsCell(event.column, event.row)
        /\ CellsChangedByClick = {FrameCell(event.column, event.row)}

(* C15: events touch only their own part of the state.  Within the step that  *)
(* handles an event: a key event changes no grid cell; a pointer event        *)
(* changes neither camera coordinate nor the ruler or help flag; Ctrl+r       *)
(* changes only the ruler flag and '?' only the help flag; h/l (and the       *)
(* arrow keys bound with them) change only camera_x; j/k (and their arrows),  *)
(* Ctrl+d and Ctrl+u change only camera_y.                                    *)
HorizontalCodes == {"h", "l", "Left", "Right"}
VerticalCodes == {"j", "k", "Up", "Down"}
C15_EventsTouchOwnState ==
    [][ pc = "poll" =>
          /\ event'.kind = "key" => UNCHANGED noise_map
          /\ event'.kind = "mouse" =>
                UNCHANGED <<camera_x, camera_y, show_ruller, show_help>>
          /\ event' = KeyEvent("r", TRUE) =>
                UNCHANGED <<camera_x, camera_y, show_help, noise_map>>
          /\ event' = KeyEvent("?", FALSE) =>
                UNCHANGED <<camera_x, camera_y, show_ruller, noise_map>>
          /\ (event'.kind = "key" /\ event'.code \in HorizontalCodes) =>
                UNCHANGED <<camera_y, show_ruller, show_help, noise_map>>
          /\ (event'.kind = "key" /\ event'.code \in VerticalCodes) =>
                UNCHANGED <<camera_x, show_ruller, show_help, noise_map>>
          /\ event' \in {KeyEvent("d", TRUE), KeyEvent("u", TRUE)} =>
                UNCHANGED <<camera_x, show_ruller, show_help, noise_map>>
      ]_vars

(* Ctrl+r was handled and flipped the ruler flag while the camera was away    *)
(* from the origin on both axes, and the camera is where the frame had it.    *)
C15_Witness ==
    /\ Handled /\ event = KeyEvent("r", TRUE) /\ frame.drawn
    /\ show_ruller # frame.show_ruller
    /\ camera_x > 0 /\ camera_y > 0
    /\ camera_x = frame.camera_x /\ camera_y = frame.camera_y
    /\ noise_map = frame.map

(* C16: modifier gating.  Handling 'd', 'u' or 'r' pressed without Control    *)
(* leaves the camera, the ruler flag, the help flag and the grid unchanged    *)
(* and does not end the loop; a step that handles one of these three keys     *)
(* and changes any of that state handles it with Control held.                *)
GatedCodes == {"d", "u", "r"}
C16_ModifierGating ==
    [][ /\ (pc = "poll" /\ event' \in {KeyEvent(code, FALSE) : code \in GatedCodes}) =>
              /\ UNCHANGED UserState
              /\ pc' = "draw"
        /\ (/\ pc = "poll" /\ event'.kind = "key" /\ event'.code \in GatedCodes
            /\ UserState' # UserState) => event'.ctrl
      ]_vars

(* plain 'u' was handled where Ctrl+u would have moved the camera *)
C16_Witness ==
    /\ Handled /\ event = KeyEvent("u", FALSE) /\ frame.drawn
    /\ camera_y > 0 /\ half_height > 0
    /\ camera_y = frame.camera_y /\ camera_x = frame.camera_x
    /\ show_ruller = frame.show_ruller /\ noise_map = frame.map

(* The labels the rulers are to carry, written out digit by digit: a number  *)
(* below 100 right-aligned in two characters, and in three.                  *)
Label2(n) ==
    IF n < 10 THEN <<" ", DigitChar(n)>> ELSE <<DigitChar(n \div 10), DigitChar(n % 10)>>
Label3(n) == <<" ">> \o Label2(n)
Glyphs == {"█", "░", " "}

(* C17: ruler labels.  With the ruler shown, the first row of the frame is    *)
(* RULLER_LEFT_SIZE blanks followed, for each content column x, by the        *)
(* two-character right-aligned label (x + camera_x) mod 100 when              *)
(* (x + camera_x) mod 10 = 0 and by two blanks otherwise; each content row y  *)
(* starts with the three-character right-aligned label (y + camera_y) mod 100 *)
(* and one space when (y + camera_y) mod 5 = 0, and with RULLER_LEFT_SIZE     *)
(* blanks otherwise.  With the ruler hidden the frame is `height` rows of     *)
(* `width` characters that are all grid glyphs or padding.                    *)
C17_RulerLabels ==
    FreshFrame =>
        LET rows == Lines(Screen)
            size == render_size(frame.width, frame.height, frame.show_ruller)
            cx == frame.camera_x
            cy == frame.camera_y
        IN  IF frame.show_ruller
            THEN /\ Len(rows) = RULLER_UP_SIZE + size[2]
                 /\ Len(rows[1]) = RULLER_LEFT_SIZE + 2 * size[1]
                 /\ SubSeq(rows[1], 1, RULLER_LEFT_SIZE) = <<" ", " ", " ", " ">>
                 /\ \A x \in 0..(size[1] - 1) :
                       SubSeq(rows[1], RULLER_LEFT_SIZE + 2 * x + 1, RULLER_LEFT_SIZE + 2 * x + 2) =
                           IF (x + cx) % 10 = 0 THEN Label2((x + cx) % 100) ELSE <<" ", " ">>
                 /\ \A y \in 0..(size[2] - 1) :
                       SubSeq(rows[RULLER_UP_SIZE + y + 1], 1, RULLER_LEFT_SIZE) =
                           IF (y + cy) % 5 = 0
                           THEN Label3((y + cy) % 100) \o <<" ">>
                           ELSE <<" ", " ", " ", " ">>
            ELSE /\ Len(rows) = frame.height
                 /\ \A i \in 1..Len(rows) :
                       /\ Len(rows[i]) = frame.width
                       /\ \A j \in 1..Len(rows[i]) : rows[i][j] \in Glyphs

(* a frame with the ruler whose first content column and first content row   *)
(* both carry a two-digit label, next to a column and a row that carry none   *)
C17_Witness ==
    /\ frame.drawn /\ frame.show_ruller
    /\ render_size(frame.width, frame.height, frame.show_ruller)[1] >= 2
    /\ render_size(frame.width, frame.height, frame.show_ruller)[2] >= 2
    /\ frame.camera_x % 10 = 0 /\ frame.camera_x % 100 >= 10
    /\ frame.camera_y % 5 = 0 /\ frame.camera_y % 100 >= 10
    /\ SubSeq(Lines(Screen)[1], 1, 8) = <<" ", " ", " ", " ">> \o Label2(frame.camera_x % 100) \o <<" ", " ">>

(* C18: quit is the only exit.  Handling 'q' ends the main loop, and the loop *)
(* has ended only where the event handled last was the key 'q': no other key, *)
(* pointer event, resize or timeout ends it.                                  *)
LoopEnded == pc \in {"exited", "crashed"}
C18_QuitOnlyExit ==
    /\ event = KeyEvent("q", FALSE) => pc = "exited"
    /\ LoopEnded => (pc = "exited" /\ event = KeyEvent("q", FALSE))

TypeOK ==
    /\ camera_x \in 0..(2 * MAP_WIDTH)
    /\ camera_y \in 0..(2 * MAP_HEIGHT)
    /\ pc \in {"draw", "bounds", "poll", "exited", "crashed"}
    /\ fault \in {"none", "overflow", "capacity"}

====
